---- MODULE Spec2Model ----
(***************************************************************************)
(* BufferedAudioFilePlayer: a background fill worker decodes a looping     *)
(* audio file into a single-producer/single-consumer FIFO, a real-time     *)
(* render callback drains it, and a control thread issues                  *)
(* play/pause/stop/skipForward.  Every atomic load/store of the C++ code   *)
(* is one step, so the three threads interleave as they do in the program. *)
(*                                                                         *)
(* Scaling: one "second" of audio is a handful of frames and a chunk is    *)
(* chunkFrames frames instead of 1024; the ratios the code depends on      *)
(* (capacity = 3 s of audio, refill threshold = half a chunk, pre-fill     *)
(* target = 9/10 of capacity) are kept.                                    *)
(***************************************************************************)
EXTENDS Integers, Sequences, FiniteSets, TLC

(***************************************************************************)
(* Bounds of the model.                                                    *)
(***************************************************************************)
MaxTotalFrames == 3
MaxBlockFrames == 2

(***************************************************************************)
(* Program constants.                                                      *)
(***************************************************************************)
\* static constexpr uint32_t chunkFrames = 1024, scaled.
chunkFrames == 2
\* backgroundLoadingTask refills when more than 512 (= chunkFrames / 2) frames are free.
refillFrames == chunkFrames \div 2
\* static constexpr uint32_t bufferSizeSeconds = 3.
bufferSizeSeconds == 3
\* float frameSamples[8]: processBlock pops at most 8 channels per frame.
maxFrameSamples == 8
\* startPlayback gives up once stuckCount exceeds 10.
maxStuck == 10
\* Ranges of uint32_t and uint64_t, scaled to the model checker's integers
\* (the narrowing from the wider to the narrower type is kept).
UInt32 == 2 ^ 16
UInt64 == 2 ^ 30
\* The gain is a float in [0, 1]; it is modelled in units of 1 / GainUnit.
GainUnit == 1

\* Channels of the file (a file of no channels is refused by loadAudioFile).
ChannelCounts == {0, 1, 2}
\* Channels of the output device (fewer than, as many as, more than the file's).
OutputChannelCounts == {1, 2}
\* Output sample rates, in frames per scaled second.
SampleRates == {1}
\* The rates at which the pre-fill alone is explored: capacities of 3, 6 and 12
\* frames, the file being at the rate of the output.
PrefillRates == {1, 2, 4}
\* Arguments of skipForward, in seconds (main passes 10, 30 and 60).
SkipSeconds == {1, 10}
\* Arguments of setGain, in units of 1 / GainUnit (some outside [0, 1]).
GainArgs == (0 - 1) .. (GainUnit + 1)
\* The rates between which the output is switched while a file plays.
RateChoices == {1, 2}
\* A float that is not a number, as an argument and as a sample: it is kept
\* apart from every gain and every sample of the model.
NaN == 0 - UInt32
\* Every float an argument of setGain can be.
FloatGainArgs == GainArgs \cup {NaN}
\* operator< on floats: false as soon as one side is not a number.
floatLess(a, b) == a # NaN /\ b # NaN /\ a < b

Min(a, b) == IF a < b THEN a ELSE b
Max(a, b) == IF a > b THEN a ELSE b

VARIABLES
    \* --- the open file (immutable after construction)
    fileLoaded, numChannels, totalFrames, fileSampleRate, errorMessage,
    \* --- the audio backend: output channels and frames per block
    numOutputChannels, blockFrames,
    \* --- BufferedAudioFilePlayer fields
    outputSampleRate, bufferSize, isPlaying, currentGain,
    fileReadPosition, totalSamplesPlayed, loopPlaybackDetected,
    shouldStopLoading, audioBuffer,
    \* --- startPlayback: lifecycle and its function-local statics
    phase, workerRunning, lastFillLevel, stuckCount,
    \* --- fillBufferFromFile in progress (worker thread, or pre-fill)
    wpc, w,
    \* --- processBlock in progress (render thread) and the output block
    rpc, r, output,
    \* --- the control thread: the call in progress and the last return value
    cpc, c,
    \* --- observer (history of the run, read by the properties only)
    obs,
    \* --- the FIFO as a ring of slots, and the queue it implements (SpecFifo)
    fifo, shadow,
    \* --- JackAudioContext: transport flags and cached position (SpecJack)
    jack

playerVars == <<outputSampleRate, bufferSize, isPlaying, currentGain,
                fileReadPosition, totalSamplesPlayed, loopPlaybackDetected,
                shouldStopLoading, audioBuffer>>
fileVars == <<fileLoaded, numChannels, totalFrames, fileSampleRate, errorMessage,
              numOutputChannels, blockFrames>>
fifoVars == <<fifo, shadow>>
vars == <<fileVars, playerVars, phase, workerRunning, lastFillLevel, stuckCount,
          wpc, w, rpc, r, output, cpc, c, obs, fifoVars, jack>>

\* JackAudioContext (part_003 lines 659-665), the frame last written by the
\* timebase callback with the path it took, and main's wasStoppedAtZero.
jackInit == [requestPlay |-> FALSE, requestStop |-> FALSE, lastKnownPosition |-> 0,
             frame |-> 0, path |-> "none", wasStoppedAtZero |-> FALSE]

(***************************************************************************)
(* The file's content: the sample of channel ch of frame f.  Every sample  *)
(* of the file is distinct and non-zero, so silence, a lost sample, a      *)
(* repeated sample and a reordering are all visible.                       *)
(***************************************************************************)
FileSample(f, ch) == f * numChannels + ch + 1

(***************************************************************************)
(* audioBuffer: choc::fifo::SingleReaderSingleWriterFIFO<float>, by its     *)
(* contract: a queue of at most `capacity` items.  push returns false and  *)
(* changes nothing when the queue is full, pop returns false and changes   *)
(* nothing when it is empty, reset(n) empties it and sets the capacity.    *)
(* (SpecFifo below relates this queue to the ring of capacity + 1 slots    *)
(* with a read and a write cursor.)                                        *)
(***************************************************************************)
getUsedSlots(b) == Len(b.items)

getFreeSlots(b) == b.capacity - Len(b.items)

reset(n) == [capacity |-> n, items |-> <<>>]

pushOk(b) == Len(b.items) < b.capacity

push(b, item) == IF pushOk(b) THEN [b EXCEPT !.items = Append(b.items, item)] ELSE b

popOk(b) == Len(b.items) > 0

\* What pop leaves in its result argument, which held `old`.
popValue(b, old) == IF popOk(b) THEN Head(b.items) ELSE old

pop(b) == IF popOk(b) THEN [b EXCEPT !.items = Tail(b.items)] ELSE b

(***************************************************************************)
(* The same FIFO as the ring it is: capacity + 1 slots, a read cursor      *)
(* advanced by the consumer and a write cursor advanced by the producer,   *)
(* one slot always left empty.                                             *)
(***************************************************************************)
fifoIncrement(f, i) == IF i # f.capacity THEN i + 1 ELSE 0

fifoUsedSlots(f) ==
    IF f.writePos >= f.readPos
    THEN f.writePos - f.readPos
    ELSE f.capacity + 1 - (f.readPos - f.writePos)

\* Faulty variant: counts the slot that is always left empty as free.
fifoFreeSlotsCountsSpare(f) ==
    IF f.writePos >= f.readPos
    THEN f.capacity - (f.writePos - f.readPos)
    ELSE f.readPos - f.writePos

fifoFreeSlots(f) ==
    IF f.writePos >= f.readPos
    THEN f.capacity - (f.writePos - f.readPos)
    ELSE f.readPos - f.writePos - 1

fifoReset(n) ==
    [capacity |-> n, readPos |-> 0, writePos |-> 0, items |-> [i \in 0 .. n |-> 0]]

\* Faulty variant: a push is never refused.
fifoPushAlways(f) == TRUE

fifoPushOk(f) == fifoIncrement(f, f.writePos) # f.readPos

\* Faulty variant: advances the write cursor before storing the item.
fifoPushAfterAdvance(f, item) ==
    IF fifoPushOk(f)
    THEN [f EXCEPT !.items[fifoIncrement(f, f.writePos)] = item,
                   !.writePos = fifoIncrement(f, f.writePos)]
    ELSE f

fifoPush(f, item) ==
    IF fifoPushOk(f)
    THEN [f EXCEPT !.items[f.writePos] = item, !.writePos = fifoIncrement(f, f.writePos)]
    ELSE f

fifoPopOk(f) == f.readPos # f.writePos

fifoPopValue(f, old) == IF fifoPopOk(f) THEN f.items[f.readPos] ELSE old

fifoPop(f) ==
    IF fifoPopOk(f) THEN [f EXCEPT !.readPos = fifoIncrement(f, f.readPos)] ELSE f

\* The queued items, oldest first.
RECURSIVE fifoItemsFrom(_, _, _)
fifoItemsFrom(f, i, n) ==
    IF n = 0 THEN <<>> ELSE <<f.items[i]>> \o fifoItemsFrom(f, fifoIncrement(f, i), n - 1)

fifoContents(f) == fifoItemsFrom(f, f.readPos, fifoUsedSlots(f))

\* Faulty variant: the capacity does not follow the rate.
getBufferSizeIgnoringRate(sampleRate) == bufferSizeSeconds

(***************************************************************************)
(* Construction.                                                           *)
(***************************************************************************)
getBufferSizeForSampleRate(sampleRate) == (bufferSizeSeconds * sampleRate) % UInt32

needsResampling == fileSampleRate # outputSampleRate

silence == [f \in 0 .. blockFrames - 1 |-> [ch \in 0 .. numOutputChannels - 1 |-> 0]]

\* entryFilePos is the cursor loaded at line 190, kept until the read.
wIdle == [currentFilePos |-> 0, actualFramesToRead |-> 0, frame |-> 0, channel |-> 0,
          fileFramesToRead |-> 0, entryFilePos |-> 0]
rIdle == [frame |-> 0, channel |-> 0, gain |-> 0,
          frameSamples |-> [i \in 0 .. maxFrameSamples - 1 |-> 0]]
cIdle == [newFilePos |-> 0, ret |-> 0, flag |-> FALSE]
obsInit == [clean |-> TRUE, rendered |-> 0, wraps |-> 0, block |-> "none",
            jump |-> "none", target |-> 0, first |-> FALSE]

\* The files and backends of the model: channels of the file, channels of the
\* output, frames of the file, frames per block.
PlayConfigs ==
    {[numChannels |-> nc, numOutputChannels |-> out, totalFrames |-> n, blockFrames |-> f] :
        nc \in ChannelCounts, out \in OutputChannelCounts,
        n \in 0 .. MaxTotalFrames, f \in 1 .. MaxBlockFrames}

\* Those among them on which the whole program, seeks included, is explored.
Configs ==
    {cfg \in PlayConfigs :
        \/ cfg.totalFrames = 0
        \/ /\ cfg.numChannels = 2 /\ cfg.numOutputChannels = 1
           /\ cfg.totalFrames = 2 /\ cfg.blockFrames = 1
        \/ /\ cfg.numChannels = 1 /\ cfg.numOutputChannels = 2
           /\ cfg.totalFrames = 1 /\ cfg.blockFrames = 2}

\* loadAudioFile, lines 51-92: what opening the file can come to.
LoadOutcomes == {"ok", "open_failed", "unsupported", "threw"}

\* Lines 72-75 are reached, and the file's properties stored, only when the
\* stream opened and a reader was created.
propertiesRead(outcome) == outcome = "ok"

\* Faulty variant: a file of no channels is accepted.
loadSucceedsAnyChannels(outcome, channels) == propertiesRead(outcome)

\* Lines 77-85: a file of no channels is refused.
loadSucceeds(outcome, channels) == propertiesRead(outcome) /\ channels # 0

\* Lines 58, 68, 79 and 89: the message each failure leaves.
loadErrorMessage(outcome, channels) ==
    CASE outcome = "open_failed" -> "Could not open file"
      [] outcome = "unsupported" -> "Unsupported audio file format"
      [] outcome = "threw" -> "Error loading audio file"
      [] outcome = "ok" /\ channels = 0 -> "Invalid audio file format"
      [] OTHER -> ""

\* The constructor: loadAudioFile, then (on success) the FIFO sized and reset.
\* `ratePairs` holds the pairs <<rate of the file, rate of the output>>.
InitRates(configs, ratePairs) ==
    /\ \E outcome \in LoadOutcomes, cfg \in configs, pair \in ratePairs :
         /\ outputSampleRate = pair[2]
         /\ fileLoaded = loadSucceeds(outcome, cfg.numChannels)
         /\ errorMessage = loadErrorMessage(outcome, cfg.numChannels)
         /\ numChannels = IF propertiesRead(outcome) THEN cfg.numChannels ELSE 0
         /\ totalFrames = IF propertiesRead(outcome) THEN cfg.totalFrames ELSE 0
         /\ fileSampleRate = IF propertiesRead(outcome) THEN pair[1] ELSE 0
         /\ numOutputChannels = cfg.numOutputChannels
         /\ blockFrames = cfg.blockFrames
    /\ bufferSize = IF fileLoaded
                    THEN (getBufferSizeForSampleRate(outputSampleRate) * numChannels) % UInt32
                    ELSE 0
    /\ audioBuffer = reset(bufferSize)
    /\ isPlaying = FALSE
    /\ currentGain = GainUnit
    /\ fileReadPosition = 0
    /\ totalSamplesPlayed = 0
    /\ loopPlaybackDetected = FALSE
    /\ shouldStopLoading = FALSE
    /\ phase = "constructed"
    /\ workerRunning = FALSE
    /\ lastFillLevel = 0
    /\ stuckCount = 0
    /\ wpc = "idle"
    /\ w = wIdle
    /\ rpc = "idle"
    /\ r = rIdle
    /\ output = silence
    /\ cpc = "idle"
    /\ c = cIdle
    /\ obs = obsInit
    /\ fifo = fifoReset(bufferSize)
    /\ shadow = reset(bufferSize)
    /\ jack = jackInit

\* The constructor on a file that is at the rate of the output.
InitWith(configs, rates) == InitRates(configs, {<<rate, rate>> : rate \in rates})

Init == InitWith(Configs, SampleRates)

InitPlay == InitWith(PlayConfigs, SampleRates)

\* Those on which stops, without seeks, are explored: files longer than a chunk.
StopConfigs ==
    {cfg \in PlayConfigs :
        /\ cfg.numChannels = 1 /\ cfg.numOutputChannels = 1
        /\ cfg.totalFrames = MaxTotalFrames /\ cfg.blockFrames = 1}

InitStop == InitWith(StopConfigs, SampleRates)

\* A file of more channels than processBlock's frameSamples array holds.
WideConfigs ==
    {[numChannels |-> maxFrameSamples + 1, numOutputChannels |-> out,
      totalFrames |-> 2, blockFrames |-> 2] : out \in OutputChannelCounts}

InitWide == InitWith(WideConfigs, SampleRates)

\* Those on which changes of the output rate are explored.
RateConfigs ==
    {cfg \in PlayConfigs :
        /\ cfg.numChannels \in {1, 2} /\ cfg.numOutputChannels = 1
        /\ cfg.totalFrames = 2 /\ cfg.blockFrames = 1}

InitRate == InitWith(RateConfigs, RateChoices)

\* Those on which the resampling path is explored: mono files whose lengths
\* make the window of source frames end inside, at, and past the frames the
\* output of one chunk asks for.
ResampleLengths == {2, 3, 5, 6}

ResampleConfigs ==
    {[numChannels |-> 1, numOutputChannels |-> 1, totalFrames |-> n, blockFrames |-> 1] :
        n \in ResampleLengths}

\* <<rate of the file, rate of the output>>: equal, upsampling by 2,
\* downsampling by 2, and a ratio (2/3) under which a chunk covers a
\* fractional count of source frames.
ResamplePairs == {<<1, 1>>, <<1, 2>>, <<2, 1>>, <<2, 3>>}

InitResample == InitRates(ResampleConfigs, ResamplePairs)

\* Those on which the narrowing of the frames left to 32 bits is explored:
\* a short mono file and one of 2^32 frames (in the scaled widths).
NarrowConfigs ==
    {[numChannels |-> 1, numOutputChannels |-> 1, totalFrames |-> n, blockFrames |-> 1] :
        n \in {2, UInt32}}

InitNarrow == InitRates(NarrowConfigs, {<<1, 1>>, <<1, 2>>})

\* Those on which the end of underruns is explored: mono files of one frame,
\* of more than a chunk, and of 2^32 frames, in blocks of one frame.
FairConfigs ==
    {[numChannels |-> 1, numOutputChannels |-> 1, totalFrames |-> n, blockFrames |-> 1] :
        n \in {1, 3, UInt32}}

InitFair == InitWith(FairConfigs, SampleRates)

\* Those on which a reset racing with a push is explored: a stereo file.
RaceConfigs ==
    {cfg \in PlayConfigs :
        /\ cfg.numChannels = 2 /\ cfg.numOutputChannels = 1
        /\ cfg.totalFrames = MaxTotalFrames /\ cfg.blockFrames = 1}

InitRace == InitWith(RaceConfigs, SampleRates)

\* Those on which the pre-fill alone is explored: every file, one backend.
StartConfigs ==
    {cfg \in PlayConfigs : cfg.numOutputChannels = 1 /\ cfg.blockFrames = 1}

InitStart == InitWith(StartConfigs, PrefillRates)

(***************************************************************************)
(* Observers.                                                              *)
(***************************************************************************)
\* wraps: the wraps of the read cursor since the poller last saw the flag
\* raised (2 stands for "more than one").
noteWrap(o) == [o EXCEPT !.wraps = Min(o.wraps + 1, 2)]

\* A seek or a stop ends the undisturbed run.
noteDisturbed(o) ==
    [o EXCEPT !.clean = FALSE, !.rendered = 0,
              !.jump = "none", !.target = 0, !.first = FALSE]

\* jump, target: a stop ("stop") or a seek ("seek") has returned, leaving the
\* position at frame `target`, and no block begun since has rendered audio.
noteJump(o, kind, position) == [o EXCEPT !.jump = kind, !.target = position]

\* first: the block in progress was begun after that stop or seek returned.
noteBlockBegun(o, kind) == [o EXCEPT !.block = kind, !.first = (o.jump # "none")]

\* The block is handed over; a rendered one ends the watch for the first block.
noteBlockDone(o) ==
    IF o.first /\ o.block = "rendered"
    THEN [o EXCEPT !.block = "none", !.first = FALSE, !.jump = "none", !.target = 0]
    ELSE [o EXCEPT !.block = "none", !.first = FALSE]

\* One more frame of an undisturbed run was rendered (counted modulo the file).
noteRendered(o) ==
    IF o.clean /\ totalFrames > 0
    THEN [o EXCEPT !.rendered = (o.rendered + 1) % totalFrames]
    ELSE o

(***************************************************************************)
(* fillBufferFromFile, run by the background worker every 10 ms and by     *)
(* startPlayback's pre-fill loop.                                          *)
(***************************************************************************)
fillReturn == IF phase = "prefill" THEN "ret" ELSE "idle"

\* Faulty variant: the tick does not look at the stop-loading flag.
workerSkipsTickUnloaded == ~fileLoaded

\* Line 169: if (shouldStopLoading || !fileLoaded) return.
workerSkipsTick == shouldStopLoading \/ ~fileLoaded

\* backgroundLoadingTask: the periodic task of the worker thread.
backgroundLoadingTask ==
    /\ workerRunning
    /\ wpc = "idle"
    /\ IF workerSkipsTick
       THEN wpc' = wpc
       ELSE IF getFreeSlots(audioBuffer) > numChannels * refillFrames
            THEN wpc' = "fill"
            ELSE wpc' = wpc
    /\ UNCHANGED <<fileVars, playerVars, phase, workerRunning, lastFillLevel,
                   stuckCount, w, rpc, r, output, cpc, c, obs, fifoVars, jack>>

\* Lines 183-190: the free-space test and the load of the read cursor.
fillEnter ==
    /\ wpc = "fill"
    /\ LET freeSlots == getFreeSlots(audioBuffer)
           freeFrames == freeSlots \div numChannels
       IN IF freeFrames < chunkFrames
          THEN /\ wpc' = fillReturn
               /\ w' = wIdle
          ELSE /\ wpc' = "loop"
               /\ w' = [wIdle EXCEPT !.currentFilePos = fileReadPosition,
                                     !.actualFramesToRead = Min(chunkFrames, freeFrames),
                                     !.entryFilePos = fileReadPosition]
    /\ UNCHANGED <<fileVars, playerVars, phase, workerRunning, lastFillLevel,
                   stuckCount, rpc, r, output, cpc, c, obs, fifoVars, jack>>

\* Faulty variant: counts one frame past the end of the file as available.
availableFramesPastEnd(currentFilePos) == (totalFrames - currentFilePos + 1) % UInt32

\* Line 203: uint32_t availableFrames = (uint32_t)(totalFrames - currentFilePos).
availableFrames(currentFilePos) == (totalFrames - currentFilePos) % UInt32

\* Faulty variant: the wrap rewinds the cursor without raising the loop flag.
fillLoopUnflagged ==
    /\ wpc = "loop"
    /\ LET wrapped == w.currentFilePos >= totalFrames
           pos == IF wrapped THEN 0 ELSE w.currentFilePos
           actual == Min(w.actualFramesToRead, availableFrames(pos))
       IN /\ fileReadPosition' = IF wrapped \/ actual = 0 THEN 0 ELSE fileReadPosition
          /\ loopPlaybackDetected' = loopPlaybackDetected
          /\ obs' = IF wrapped \/ actual = 0 THEN noteWrap(obs) ELSE obs
          /\ IF actual = 0
             THEN /\ wpc' = fillReturn
                  /\ w' = wIdle
             ELSE /\ wpc' = "read"
                  /\ w' = [w EXCEPT !.currentFilePos = pos, !.actualFramesToRead = actual]
    /\ UNCHANGED <<fileVars, outputSampleRate, bufferSize, isPlaying, currentGain,
                   totalSamplesPlayed, shouldStopLoading, audioBuffer, phase,
                   workerRunning, lastFillLevel, stuckCount, rpc, r, output, cpc, c,
                   fifoVars, jack>>

\* Lines 192-213: wrap at end of file, clamp the read to the frames left.
fillLoop ==
    /\ wpc = "loop"
    /\ LET wrapped == w.currentFilePos >= totalFrames
           pos == IF wrapped THEN 0 ELSE w.currentFilePos
           actual == Min(w.actualFramesToRead, availableFrames(pos))
       IN /\ fileReadPosition' = IF wrapped \/ actual = 0 THEN 0 ELSE fileReadPosition
          /\ loopPlaybackDetected' = (wrapped \/ actual = 0 \/ loopPlaybackDetected)
          /\ obs' = IF wrapped \/ actual = 0 THEN noteWrap(obs) ELSE obs
          /\ IF actual = 0
             THEN /\ wpc' = fillReturn
                  /\ w' = wIdle
             ELSE /\ wpc' = "read"
                  /\ w' = [w EXCEPT !.currentFilePos = pos, !.actualFramesToRead = actual]
    /\ UNCHANGED <<fileVars, outputSampleRate, bufferSize, isPlaying, currentGain,
                   totalSamplesPlayed, shouldStopLoading, audioBuffer, phase,
                   workerRunning, lastFillLevel, stuckCount, rpc, r, output, cpc, c,
                   fifoVars, jack>>

\* Lines 310-317: fileReader->readFrames succeeds ...
fillRead ==
    /\ wpc = "read"
    /\ ~needsResampling
    /\ wpc' = "push"
    /\ w' = [w EXCEPT !.frame = 0, !.channel = 0, !.entryFilePos = 0]
    /\ UNCHANGED <<fileVars, playerVars, phase, workerRunning, lastFillLevel,
                   stuckCount, rpc, r, output, cpc, c, obs, fifoVars, jack>>

\* Faulty variant: a failed read moves the cursor past the frames asked for.
fillReadFailsAdvancing ==
    /\ wpc = "read"
    /\ fileReadPosition' = (w.currentFilePos + w.actualFramesToRead) % UInt64
    /\ wpc' = fillReturn
    /\ w' = wIdle
    /\ UNCHANGED <<fileVars, outputSampleRate, bufferSize, isPlaying, currentGain,
                   totalSamplesPlayed, loopPlaybackDetected, shouldStopLoading,
                   audioBuffer, phase, workerRunning, lastFillLevel, stuckCount,
                   rpc, r, output, cpc, c, obs, fifoVars, jack>>

\* ... or fails (returns false, or throws): lines 338-347.
fillReadFails ==
    /\ wpc = "read"
    /\ wpc' = fillReturn
    /\ w' = wIdle
    /\ UNCHANGED <<fileVars, playerVars, phase, workerRunning, lastFillLevel,
                   stuckCount, rpc, r, output, cpc, c, obs, fifoVars, jack>>

\* Lines 320-333: one audioBuffer.push of the interleaving loop.
fillPush ==
    /\ wpc = "push"
    /\ LET sample == FileSample(w.currentFilePos + w.frame, w.channel)
           lastChannel == w.channel + 1 = numChannels
           lastFrame == w.frame + 1 = w.actualFramesToRead
       IN IF pushOk(audioBuffer)
          THEN /\ audioBuffer' = push(audioBuffer, sample)
               /\ fileReadPosition' = fileReadPosition
               /\ w' = IF lastChannel
                       THEN [w EXCEPT !.channel = 0, !.frame = w.frame + 1]
                       ELSE [w EXCEPT !.channel = w.channel + 1]
               /\ wpc' = IF lastChannel /\ lastFrame THEN "store" ELSE "push"
          ELSE /\ fileReadPosition' = (w.currentFilePos + w.frame) % UInt64
               /\ wpc' = fillReturn
               /\ w' = wIdle
               /\ UNCHANGED audioBuffer
    /\ UNCHANGED <<fileVars, outputSampleRate, bufferSize, isPlaying, currentGain,
                   totalSamplesPlayed, loopPlaybackDetected, shouldStopLoading, phase,
                   workerRunning, lastFillLevel, stuckCount, rpc, r, output, cpc, c, obs, fifoVars, jack>>

\* Line 336: fileReadPosition = currentFilePos + actualFramesToRead.
fillStore ==
    /\ wpc = "store"
    /\ fileReadPosition' = (w.currentFilePos + w.actualFramesToRead) % UInt64
    /\ wpc' = fillReturn
    /\ w' = wIdle
    /\ UNCHANGED <<fileVars, outputSampleRate, bufferSize, isPlaying, currentGain,
                   totalSamplesPlayed, loopPlaybackDetected, shouldStopLoading,
                   audioBuffer, phase, workerRunning, lastFillLevel, stuckCount,
                   rpc, r, output, cpc, c, obs, fifoVars, jack>>

(***************************************************************************)
(* The resampling branch of fillBufferFromFile, lines 218-306, taken when  *)
(* the rate of the file is not the rate of the output.  The ratio is the   *)
(* exact quotient fileSampleRate / outputSampleRate; an interpolated       *)
(* sample is rounded down to the samples of the model.                     *)
(***************************************************************************)
\* Lines 221-223: static_cast<uint32_t>(actualFramesToRead * ratio) + 2,
\* clamped to the frames left in the file.
fileFramesToRead(actual, available) ==
    Min((((actual * fileSampleRate) \div outputSampleRate) + 2) % UInt32, available)

\* Lines 238-240: sourcePos = outFrame * ratio, its integer part ...
sourceFrame(outFrame) == ((outFrame * fileSampleRate) \div outputSampleRate) % UInt32

\* ... and its fraction, in units of 1 / outputSampleRate.
fraction(outFrame) == (outFrame * fileSampleRate) % outputSampleRate

\* Lines 242, 268 and 283: the branch taken for source frame k in a window of
\* `window` frames; "none" when no branch is taken and nothing is pushed.
interpolation(k, window) ==
    IF k + 3 < window /\ k > 0 THEN "cubic"
    ELSE IF k + 1 < window THEN "linear"
    ELSE IF k < window THEN "copy"
    ELSE "none"

\* Lines 247-259: Catmull-Rom through y0..y3 at t = tn / td.
cubic(y0, y1, y2, y3, tn, td) ==
    ( (0 - y0 + 3 * y1 - 3 * y2 + y3) * tn * tn * tn
    + (2 * y0 - 5 * y1 + 4 * y2 - y3) * tn * tn * td
    + (0 - y0 + y2) * tn * td * td
    + 2 * y1 * td * td * td ) \div (2 * td * td * td)

\* Lines 273-275: sample1 + fraction * (sample2 - sample1).
linear(y1, y2, tn, td) == (y1 * td + tn * (y2 - y1)) \div td

\* The sample pushed for channel `ch` of output frame `outFrame`, the window
\* starting at file frame `pos`.
resampled(pos, outFrame, ch, window) ==
    LET k == sourceFrame(outFrame)
        tn == fraction(outFrame)
        td == outputSampleRate
        y(i) == FileSample(pos + i, ch)
        kind == interpolation(k, window)
    IN IF kind = "cubic" THEN cubic(y(k - 1), y(k), y(k + 1), y(k + 2), tn, td)
       ELSE IF kind = "linear" THEN linear(y(k), y(k + 1), tn, td)
       ELSE y(k)

\* Lines 226-232: the window is read from the file; the read succeeds.
fillReadResample ==
    /\ wpc = "read"
    /\ needsResampling
    /\ wpc' = "rpush"
    /\ w' = [w EXCEPT !.frame = 0, !.channel = 0, !.entryFilePos = 0,
                      !.fileFramesToRead =
                          fileFramesToRead(w.actualFramesToRead,
                                           availableFrames(w.currentFilePos))]
    /\ UNCHANGED <<fileVars, playerVars, phase, workerRunning, lastFillLevel,
                   stuckCount, rpc, r, output, cpc, c, obs, fifoVars, jack>>

\* Lines 236-296: one push of the conversion loop, or, for an output frame
\* whose source frame lies past the window, the step to the next frame.
fillPushResample ==
    /\ wpc = "rpush"
    /\ LET k == sourceFrame(w.frame)
           kind == interpolation(k, w.fileFramesToRead)
           sample == resampled(w.currentFilePos, w.frame, w.channel, w.fileFramesToRead)
           lastChannel == kind = "none" \/ w.channel + 1 = numChannels
           lastFrame == w.frame + 1 = w.actualFramesToRead
       IN IF kind = "none" \/ pushOk(audioBuffer)
          THEN /\ audioBuffer' = IF kind = "none" THEN audioBuffer
                                                  ELSE push(audioBuffer, sample)
               /\ fileReadPosition' = fileReadPosition
               /\ w' = IF lastChannel
                       THEN [w EXCEPT !.channel = 0, !.frame = w.frame + 1]
                       ELSE [w EXCEPT !.channel = w.channel + 1]
               /\ wpc' = IF lastChannel /\ lastFrame THEN "rstore" ELSE "rpush"
          ELSE /\ fileReadPosition' = (w.currentFilePos + k) % UInt64
               /\ wpc' = fillReturn
               /\ w' = wIdle
               /\ UNCHANGED audioBuffer
    /\ UNCHANGED <<fileVars, outputSampleRate, bufferSize, isPlaying, currentGain,
                   totalSamplesPlayed, loopPlaybackDetected, shouldStopLoading, phase,
                   workerRunning, lastFillLevel, stuckCount, rpc, r, output, cpc, c, obs, fifoVars, jack>>

\* Line 300: fileReadPosition = currentFilePos + fileFramesToRead.
fillStoreResample ==
    /\ wpc = "rstore"
    /\ fileReadPosition' = (w.currentFilePos + w.fileFramesToRead) % UInt64
    /\ wpc' = fillReturn
    /\ w' = wIdle
    /\ UNCHANGED <<fileVars, outputSampleRate, bufferSize, isPlaying, currentGain,
                   totalSamplesPlayed, loopPlaybackDetected, shouldStopLoading,
                   audioBuffer, phase, workerRunning, lastFillLevel, stuckCount,
                   rpc, r, output, cpc, c, obs, fifoVars, jack>>

fillResampling ==
    \/ fillReadResample
    \/ fillPushResample
    \/ fillStoreResample

fillBufferFromFile ==
    \/ fillEnter
    \/ fillLoop
    \/ fillRead
    \/ fillReadFails
    \/ fillPush
    \/ fillStore

(***************************************************************************)
(* processBlock, called by the audio backend's real-time callback once the *)
(* player is attached (main attaches it after startPlayback has returned). *)
(***************************************************************************)
\* Faulty variant: needs one sample per frame, whatever the channel count.
samplesNeededPerFrame(numFrames) == numFrames % UInt32

\* Line 364: uint32_t samplesNeeded = numFrames * numChannels.
samplesNeeded(numFrames) == (numFrames * numChannels) % UInt32

\* Faulty variant: every output channel is fed from the file's first channel.
sourceChannelFirst(channel) == 0

\* Line 394: the file channel that feeds output channel `channel`.
sourceChannel(channel) == Min(channel, numChannels - 1)

\* Line 395: frameSamples[sourceChannel] * gain.
floatTimes(sample, gain) == IF gain = NaN THEN NaN ELSE (sample * gain) \div GainUnit

\* Lines 392-397: one output frame from the popped samples, gain applied.
outputFrame(frameSamples, gain) ==
    [ch \in 0 .. numOutputChannels - 1 |->
        floatTimes(frameSamples[sourceChannel(ch)], gain)]

\* Faulty variant: silence only when both paused and not loaded.
notRenderingBoth == ~isPlaying /\ ~fileLoaded

\* Lines 353-358: clear the block; silence unless playing a loaded file.
notRendering == ~isPlaying \/ ~fileLoaded

processBlockBegin ==
    /\ phase = "started"
    /\ rpc = "idle"
    /\ output' = silence
    /\ r' = rIdle
    /\ IF notRendering
       THEN /\ rpc' = "post"
            /\ obs' = noteBlockBegun(obs, "notPlaying")
       ELSE /\ rpc' = "check"
            /\ obs' = noteBlockBegun(obs, "begun")
    /\ UNCHANGED <<fileVars, playerVars, phase, workerRunning, lastFillLevel,
                   stuckCount, wpc, w, cpc, c, fifoVars, jack>>

\* Faulty variant: an underrun block rewinds the worker's read cursor.
processBlockCheckRewinding ==
    /\ rpc = "check"
    /\ IF getUsedSlots(audioBuffer) < samplesNeeded(blockFrames)
       THEN /\ rpc' = "post"
            /\ r' = r
            /\ fileReadPosition' = 0
            /\ obs' = [obs EXCEPT !.block = "underrun"]
       ELSE /\ rpc' = "pop"
            /\ r' = [r EXCEPT !.gain = currentGain]
            /\ fileReadPosition' = fileReadPosition
            /\ obs' = [obs EXCEPT !.block = "rendered"]
    /\ UNCHANGED <<fileVars, outputSampleRate, bufferSize, isPlaying, currentGain,
                   totalSamplesPlayed, loopPlaybackDetected, shouldStopLoading,
                   audioBuffer, phase, workerRunning, lastFillLevel,
                   stuckCount, wpc, w, output, cpc, c, fifoVars, jack>>

\* Lines 363-379: the underrun test, then the load of the gain.
processBlockCheck ==
    /\ rpc = "check"
    /\ IF getUsedSlots(audioBuffer) < samplesNeeded(blockFrames)
       THEN /\ rpc' = "post"
            /\ r' = r
            /\ obs' = [obs EXCEPT !.block = "underrun"]
       ELSE /\ rpc' = "pop"
            /\ r' = [r EXCEPT !.gain = currentGain]
            /\ obs' = [obs EXCEPT !.block = "rendered"]
    /\ UNCHANGED <<fileVars, playerVars, phase, workerRunning, lastFillLevel,
                   stuckCount, wpc, w, output, cpc, c, fifoVars, jack>>

\* Lines 381-398: one audioBuffer.pop; the pop that completes a frame also
\* writes the frame to the output.
processBlockPop ==
    /\ rpc = "pop"
    /\ LET popped == popValue(audioBuffer, r.frameSamples[r.channel])
           samples == [r.frameSamples EXCEPT ![r.channel] = popped]
           lastChannel == ~(r.channel + 1 < numChannels /\ r.channel + 1 < maxFrameSamples)
           lastFrame == r.frame + 1 = blockFrames
       IN /\ audioBuffer' = pop(audioBuffer)
          /\ IF lastChannel
             THEN /\ output' = [output EXCEPT ![r.frame] = outputFrame(samples, r.gain)]
                  /\ r' = [r EXCEPT !.frameSamples = rIdle.frameSamples,
                                    !.channel = 0,
                                    !.frame = r.frame + 1]
                  /\ rpc' = IF lastFrame THEN "post" ELSE "pop"
                  /\ obs' = noteRendered(obs)
             ELSE /\ r' = [r EXCEPT !.frameSamples = samples, !.channel = r.channel + 1]
                  /\ UNCHANGED <<output, rpc, obs>>
    /\ UNCHANGED <<fileVars, outputSampleRate, bufferSize, isPlaying, currentGain,
                   fileReadPosition, totalSamplesPlayed, loopPlaybackDetected,
                   shouldStopLoading, phase, workerRunning, lastFillLevel, stuckCount,
                   wpc, w, cpc, c, fifoVars, jack>>

\* processBlock has returned: the backend takes the block.
processBlockReturn ==
    /\ rpc = "post"
    /\ rpc' = "idle"
    /\ r' = rIdle
    /\ output' = silence
    /\ obs' = noteBlockDone(obs)
    /\ UNCHANGED <<fileVars, playerVars, phase, workerRunning, lastFillLevel,
                   stuckCount, wpc, w, cpc, c, fifoVars, jack>>

processBlock ==
    \/ processBlockBegin
    \/ processBlockCheck
    \/ processBlockPop
    \/ processBlockReturn

(***************************************************************************)
(* The control thread (main's keyboard loop): one call at a time, made     *)
(* after startPlayback has returned.                                       *)
(***************************************************************************)
controlReady == cpc = "idle" /\ phase = "started"

\* void play() { isPlaying = true; }
play ==
    /\ controlReady
    /\ isPlaying' = TRUE
    /\ c' = cIdle
    /\ UNCHANGED <<fileVars, outputSampleRate, bufferSize, currentGain, fileReadPosition,
                   totalSamplesPlayed, loopPlaybackDetected, shouldStopLoading,
                   audioBuffer, phase, workerRunning, lastFillLevel, stuckCount,
                   wpc, w, rpc, r, output, cpc, obs, fifoVars, jack>>

\* Faulty variant: pausing also flushes the buffered audio.
pauseAndFlush ==
    /\ controlReady
    /\ isPlaying' = FALSE
    /\ audioBuffer' = reset(bufferSize)
    /\ c' = cIdle
    /\ UNCHANGED <<fileVars, outputSampleRate, bufferSize, currentGain, fileReadPosition,
                   totalSamplesPlayed, loopPlaybackDetected, shouldStopLoading,
                   phase, workerRunning, lastFillLevel, stuckCount,
                   wpc, w, rpc, r, output, cpc, obs, fifoVars, jack>>

\* void pause() { isPlaying = false; }
pause ==
    /\ controlReady
    /\ isPlaying' = FALSE
    /\ c' = cIdle
    /\ UNCHANGED <<fileVars, outputSampleRate, bufferSize, currentGain, fileReadPosition,
                   totalSamplesPlayed, loopPlaybackDetected, shouldStopLoading,
                   audioBuffer, phase, workerRunning, lastFillLevel, stuckCount,
                   wpc, w, rpc, r, output, cpc, obs, fifoVars, jack>>

\* void stop(): four statements, each one atomic store or the FIFO reset.
stopPlaying ==
    /\ controlReady
    /\ isPlaying' = FALSE
    /\ cpc' = "stop_position"
    /\ c' = cIdle
    /\ obs' = noteDisturbed(obs)
    /\ UNCHANGED <<fileVars, outputSampleRate, bufferSize, currentGain, fileReadPosition,
                   totalSamplesPlayed, loopPlaybackDetected, shouldStopLoading,
                   audioBuffer, phase, workerRunning, lastFillLevel, stuckCount,
                   wpc, w, rpc, r, output, fifoVars, jack>>

stopPosition ==
    /\ cpc = "stop_position"
    /\ fileReadPosition' = 0
    /\ cpc' = "stop_reset"
    /\ UNCHANGED <<fileVars, outputSampleRate, bufferSize, isPlaying, currentGain,
                   totalSamplesPlayed, loopPlaybackDetected, shouldStopLoading,
                   audioBuffer, phase, workerRunning, lastFillLevel, stuckCount,
                   wpc, w, rpc, r, output, c, obs, fifoVars, jack>>

\* totalSamplesPlayed = 0; audioBuffer.reset(bufferSize).  (Only the control
\* thread writes totalSamplesPlayed, so the two statements are one step.)
stopReset ==
    /\ cpc = "stop_reset"
    /\ totalSamplesPlayed' = 0
    /\ audioBuffer' = reset(bufferSize)
    /\ cpc' = "idle"
    /\ obs' = noteJump(obs, "stop", 0)
    /\ UNCHANGED <<fileVars, outputSampleRate, bufferSize, isPlaying, currentGain,
                   fileReadPosition, loopPlaybackDetected,
                   shouldStopLoading, phase, workerRunning, lastFillLevel, stuckCount,
                   wpc, w, rpc, r, output, c, fifoVars, jack>>

stop ==
    \/ stopPlaying
    \/ stopPosition
    \/ stopReset

(***************************************************************************)
(* The reset of stop() when it runs while the worker is inside a push.     *)
(* reset must not race with a push (ring buffer contract); when it does,   *)
(* the write cursor the push publishes can survive the reset, the read     *)
(* cursor being back at slot 0: the ring then holds every slot below the   *)
(* write cursor, that is the samples still queued, preceded by samples     *)
(* that were already played.  Which of these outcomes occurs depends on    *)
(* where the cursors were.                                                 *)
(***************************************************************************)
\* A sample played before the reset that comes back into the ring.
staleSample == 0 - 1

\* The ring after reset(n) raced with a push on ring b.
resetRacingPush(b, n) ==
    {reset(n)} \cup
    {[capacity |-> n, items |-> [i \in 1 .. j |-> staleSample] \o b.items] :
        j \in 0 .. (n - Len(b.items))}

stopResetRacing ==
    /\ cpc = "stop_reset"
    /\ totalSamplesPlayed' = 0
    /\ audioBuffer' \in IF wpc = "push"
                        THEN resetRacingPush(audioBuffer, bufferSize)
                        ELSE {reset(bufferSize)}
    /\ cpc' = "idle"
    /\ obs' = noteJump(obs, "stop", 0)
    /\ UNCHANGED <<fileVars, outputSampleRate, bufferSize, isPlaying, currentGain,
                   fileReadPosition, loopPlaybackDetected,
                   shouldStopLoading, phase, workerRunning, lastFillLevel, stuckCount,
                   wpc, w, rpc, r, output, c, fifoVars, jack>>

stopRacing ==
    \/ stopPlaying
    \/ stopPosition
    \/ stopResetRacing

\* Faulty variant: the new position is not wrapped at the end of the file.
skipTargetUnwrapped(pos, seconds) ==
    (pos + ((seconds * fileSampleRate) % UInt64)) % UInt64

\* Lines 408-416: the position a seek of `seconds` from cursor `pos` moves to.
\* (A file of no frames makes line 415 divide by zero; see skipForwardEnter.)
skipTarget(pos, seconds) ==
    LET framesToSkip == (seconds * fileSampleRate) % UInt64
        newFilePos == (pos + framesToSkip) % UInt64
    IN IF newFilePos >= totalFrames THEN newFilePos % totalFrames ELSE newFilePos

\* uint64_t getCurrentOutputFrame(): the published playback position.
getCurrentOutputFrame == totalSamplesPlayed

\* skipForward, lines 405-416.  With totalFrames = 0 the modulo traps and the
\* process ends there, so the call has no successor state.
skipForwardEnter ==
    /\ controlReady
    /\ \E seconds \in SkipSeconds :
        IF ~fileLoaded
        THEN /\ c' = [cIdle EXCEPT !.ret = getCurrentOutputFrame]
             /\ UNCHANGED <<cpc, obs>>
        ELSE /\ totalFrames > 0
             /\ c' = [cIdle EXCEPT !.newFilePos = skipTarget(fileReadPosition, seconds)]
             /\ cpc' = "skip_store"
             /\ obs' = noteDisturbed(obs)
    /\ UNCHANGED <<fileVars, playerVars, phase, workerRunning, lastFillLevel,
                   stuckCount, wpc, w, rpc, r, output, fifoVars, jack>>

\* Line 419: fileReadPosition.store(newFilePos).
skipForwardStore ==
    /\ cpc = "skip_store"
    /\ fileReadPosition' = c.newFilePos
    /\ cpc' = "skip_reset"
    /\ UNCHANGED <<fileVars, outputSampleRate, bufferSize, isPlaying, currentGain,
                   totalSamplesPlayed, loopPlaybackDetected, shouldStopLoading,
                   audioBuffer, phase, workerRunning, lastFillLevel, stuckCount,
                   wpc, w, rpc, r, output, c, obs, fifoVars, jack>>

\* Lines 422-427: audioBuffer.reset(bufferSize), then
\* return getCurrentOutputFrame().  (Only the control thread writes
\* totalSamplesPlayed, so the reset and the read are one step.)
skipForwardReset ==
    /\ cpc = "skip_reset"
    /\ audioBuffer' = reset(bufferSize)
    /\ c' = [cIdle EXCEPT !.ret = getCurrentOutputFrame]
    /\ cpc' = "idle"
    /\ obs' = noteJump(obs, "seek", c.newFilePos)
    /\ UNCHANGED <<fileVars, outputSampleRate, bufferSize, isPlaying, currentGain,
                   fileReadPosition, totalSamplesPlayed, loopPlaybackDetected,
                   shouldStopLoading, phase, workerRunning, lastFillLevel, stuckCount,
                   wpc, w, rpc, r, output, fifoVars, jack>>

skipForward ==
    \/ skipForwardEnter
    \/ skipForwardStore
    \/ skipForwardReset

\* std::clamp(gain, 0.0f, 1.0f): (v < lo) ? lo : (hi < v) ? hi : v.
clampGain(gain) ==
    IF floatLess(gain, 0) THEN 0
    ELSE IF floatLess(GainUnit, gain) THEN GainUnit
    ELSE gain

\* setGain, header line 37, with its argument drawn from `args`.
setGainWith(args) ==
    /\ controlReady
    /\ \E gain \in args :
        /\ currentGain' = clampGain(gain)
        /\ c' = cIdle
    /\ UNCHANGED <<fileVars, outputSampleRate, bufferSize, isPlaying, fileReadPosition,
                   totalSamplesPlayed, loopPlaybackDetected, shouldStopLoading,
                   audioBuffer, phase, workerRunning, lastFillLevel, stuckCount,
                   wpc, w, rpc, r, output, cpc, obs, fifoVars, jack>>

\* setGain with the numbers below, within and above the range.
setGain == setGainWith(GainArgs)

\* setGain with any float.
setGainAnyFloat == setGainWith(FloatGainArgs)

\* Faulty variant: a load instead of an exchange, the flag is left as it was.
loopFlagKept == loopPlaybackDetected

\* loopPlaybackDetected.exchange(false): the value left in the flag.
loopFlagAfterPoll == FALSE

\* getLoopPlaybackDetected(): returns the flag and clears it, atomically.
getLoopPlaybackDetected ==
    /\ controlReady
    /\ c' = [cIdle EXCEPT !.flag = loopPlaybackDetected]
    /\ loopPlaybackDetected' = loopFlagAfterPoll
    /\ obs' = IF loopPlaybackDetected THEN [obs EXCEPT !.wraps = 0] ELSE obs
    /\ UNCHANGED <<fileVars, outputSampleRate, bufferSize, isPlaying, currentGain,
                   fileReadPosition, totalSamplesPlayed, shouldStopLoading,
                   audioBuffer, phase, workerRunning, lastFillLevel, stuckCount,
                   wpc, w, rpc, r, output, cpc, fifoVars, jack>>

(***************************************************************************)
(* startPlayback: synchronous pre-fill, then the worker thread is started  *)
(* and output is enabled.  main calls it once, right after construction.   *)
(***************************************************************************)
\* Line 135: uint32_t targetFill = bufferSize * 9/10.
targetFill == ((bufferSize * 9) % UInt32) \div 10

\* Faulty variant: the loop stops at half the mark.
belowHalfTarget(used) == 2 * used < targetFill

\* Line 136: while (audioBuffer.getUsedSlots() < targetFill).
belowTarget(used) == used < targetFill

\* Faulty variant: the background worker is started before the pre-fill.
startPlaybackEnterWorkerFirst ==
    /\ cpc = "idle"
    /\ phase = "constructed"
    /\ IF ~fileLoaded
       THEN /\ phase' = "started"
            /\ cpc' = cpc
            /\ workerRunning' = workerRunning
       ELSE /\ phase' = "prefill"
            /\ cpc' = "prefill_test"
            /\ workerRunning' = TRUE
    /\ UNCHANGED <<fileVars, playerVars, lastFillLevel, stuckCount,
                   wpc, w, rpc, r, output, c, obs, fifoVars, jack>>

\* Line 129: if (!fileLoaded) return; otherwise the pre-fill begins.
startPlaybackEnter ==
    /\ cpc = "idle"
    /\ phase = "constructed"
    /\ IF ~fileLoaded
       THEN /\ phase' = "started"
            /\ cpc' = cpc
       ELSE /\ phase' = "prefill"
            /\ cpc' = "prefill_test"
    /\ UNCHANGED <<fileVars, playerVars, workerRunning, lastFillLevel, stuckCount,
                   wpc, w, rpc, r, output, c, obs, fifoVars, jack>>

\* Line 136-138: the loop test, and the call of fillBufferFromFile.
startPlaybackTest ==
    /\ cpc = "prefill_test"
    /\ IF belowTarget(getUsedSlots(audioBuffer))
       THEN /\ cpc' = "prefill_fill"
            /\ wpc' = "fill"
       ELSE /\ cpc' = "prefill_done"
            /\ wpc' = wpc
    /\ UNCHANGED <<fileVars, playerVars, phase, workerRunning, lastFillLevel,
                   stuckCount, w, rpc, r, output, c, obs, fifoVars, jack>>

\* Faulty variant: the count of iterations without progress is not advanced.
stuckCountKept(count) == count

\* Line 147: ++stuckCount.
nextStuckCount(count) == count + 1

\* Lines 140-152: progress check with the static lastFillLevel and stuckCount.
startPlaybackStuck ==
    /\ cpc = "prefill_fill"
    /\ wpc = "ret"
    /\ wpc' = "idle"
    /\ LET currentFill == getUsedSlots(audioBuffer)
       IN IF currentFill = lastFillLevel
          THEN /\ stuckCount' = nextStuckCount(stuckCount)
               /\ lastFillLevel' = lastFillLevel
               /\ cpc' = IF nextStuckCount(stuckCount) > maxStuck
                         THEN "prefill_done"
                         ELSE "prefill_test"
          ELSE /\ lastFillLevel' = currentFill
               /\ stuckCount' = stuckCount
               /\ cpc' = "prefill_test"
    /\ UNCHANGED <<fileVars, playerVars, phase, workerRunning, w, rpc, r, output, c,
                   obs, fifoVars, jack>>

\* Line 160: backgroundThread.start(10, ...).
startPlaybackThread ==
    /\ cpc = "prefill_done"
    /\ workerRunning' = TRUE
    /\ cpc' = "prefill_play"
    /\ UNCHANGED <<fileVars, playerVars, phase, lastFillLevel, stuckCount,
                   wpc, w, rpc, r, output, c, obs, fifoVars, jack>>

\* Line 163: isPlaying = true; the call returns and main attaches the callback.
startPlaybackPlay ==
    /\ cpc = "prefill_play"
    /\ isPlaying' = TRUE
    /\ phase' = "started"
    /\ cpc' = "idle"
    /\ UNCHANGED <<fileVars, outputSampleRate, bufferSize, currentGain, fileReadPosition,
                   totalSamplesPlayed, loopPlaybackDetected, shouldStopLoading,
                   audioBuffer, workerRunning, lastFillLevel, stuckCount,
                   wpc, w, rpc, r, output, c, obs, fifoVars, jack>>

startPlayback ==
    \/ startPlaybackEnter
    \/ startPlaybackTest
    \/ startPlaybackStuck
    \/ startPlaybackThread
    \/ startPlaybackPlay

\* setOutputSampleRate, lines 99-105: a public call the class accepts at any
\* time, before startPlayback or between two other control calls.
setOutputSampleRateWith(rates) ==
    /\ cpc = "idle"
    /\ phase \in {"constructed", "started"}
    /\ \E rate \in rates :
        /\ outputSampleRate' = rate
        /\ bufferSize' = (getBufferSizeForSampleRate(rate) * numChannels) % UInt32
        /\ audioBuffer' = reset((getBufferSizeForSampleRate(rate) * numChannels) % UInt32)
    /\ c' = cIdle
    /\ obs' = IF phase = "started" THEN noteDisturbed(obs) ELSE obs
    /\ UNCHANGED <<fileVars, isPlaying, currentGain, fileReadPosition,
                   totalSamplesPlayed, loopPlaybackDetected, shouldStopLoading,
                   phase, workerRunning, lastFillLevel, stuckCount,
                   wpc, w, rpc, r, output, cpc, fifoVars, jack>>

\* The call with the rates of the model's backends.
setOutputSampleRate == setOutputSampleRateWith(SampleRates)

\* The call with a rate that may differ from the file's.
setOutputSampleRateAnyRate == setOutputSampleRateWith(RateChoices)

\* The same call made before startPlayback only.
setOutputSampleRateBeforeStart == phase = "constructed" /\ setOutputSampleRate

(***************************************************************************)
(* Teardown at the end of main: the callback is removed (main.cpp line     *)
(* 475), then the player is destroyed: the destructor's body, lines 45-49, *)
(* then the members, the file reader among them.                           *)
(***************************************************************************)
\* player->removeCallback(*audioFilePlayer): no processBlock runs afterwards.
removeCallback ==
    /\ controlReady
    /\ rpc = "idle"
    /\ phase' = "detached"
    /\ UNCHANGED <<fileVars, playerVars, workerRunning, lastFillLevel, stuckCount,
                   wpc, w, rpc, r, output, cpc, c, obs, fifoVars, jack>>

\* Line 47: shouldStopLoading = true.
destructorFlag ==
    /\ phase = "detached"
    /\ shouldStopLoading' = TRUE
    /\ phase' = "stopping"
    /\ UNCHANGED <<fileVars, outputSampleRate, bufferSize, isPlaying, currentGain,
                   fileReadPosition, totalSamplesPlayed, loopPlaybackDetected,
                   audioBuffer, workerRunning, lastFillLevel, stuckCount,
                   wpc, w, rpc, r, output, cpc, c, obs, fifoVars, jack>>

\* Line 48: backgroundThread.stop() returns once the worker thread, and with
\* it the tick it may be running, has ended.
destructorJoin ==
    /\ phase = "stopping"
    /\ wpc = "idle"
    /\ workerRunning' = FALSE
    /\ phase' = "joined"
    /\ UNCHANGED <<fileVars, playerVars, lastFillLevel, stuckCount,
                   wpc, w, rpc, r, output, cpc, c, obs, fifoVars, jack>>

\* After the body: the members are destroyed, fileReader last of those the
\* worker uses.
destructorMembers ==
    /\ phase = "joined"
    /\ phase' = "destroyed"
    /\ UNCHANGED <<fileVars, playerVars, workerRunning, lastFillLevel, stuckCount,
                   wpc, w, rpc, r, output, cpc, c, obs, fifoVars, jack>>

teardown ==
    \/ removeCallback
    \/ destructorFlag
    \/ destructorJoin
    \/ destructorMembers

Next ==
    \/ backgroundLoadingTask
    \/ fillBufferFromFile
    \/ processBlock
    \/ play
    \/ pause
    \/ stop
    \/ skipForward
    \/ setGain
    \/ getLoopPlaybackDetected
    \/ startPlayback
    \/ setOutputSampleRate
    \/ teardown

Spec == Init /\ [][Next]_vars

(***************************************************************************)
(* Undisturbed playback: the same program when the control thread issues   *)
(* no stop and no seek, on every file and backend of the model.            *)
(***************************************************************************)
NextPlay ==
    \/ backgroundLoadingTask
    \/ fillBufferFromFile
    \/ processBlock
    \/ play
    \/ pause
    \/ setGain
    \/ getLoopPlaybackDetected
    \/ startPlayback
    \/ setOutputSampleRateBeforeStart

SpecPlay == InitPlay /\ [][NextPlay]_vars

(***************************************************************************)
(* Undisturbed playback of a file of nine channels.                        *)
(***************************************************************************)
SpecWide == InitWide /\ [][NextPlay]_vars

(***************************************************************************)
(* Undisturbed playback when setGain is given any float.                   *)
(***************************************************************************)
NextGain ==
    \/ backgroundLoadingTask
    \/ fillBufferFromFile
    \/ processBlock
    \/ play
    \/ pause
    \/ setGainAnyFloat
    \/ getLoopPlaybackDetected
    \/ startPlayback
    \/ setOutputSampleRateBeforeStart

SpecGain == InitStop /\ [][NextGain]_vars

(***************************************************************************)
(* Changes of the output rate before and during playback: the file is     *)
(* then converted, or copied, according to the rate last set.              *)
(***************************************************************************)
NextRate ==
    \/ backgroundLoadingTask
    \/ fillBufferFromFile
    \/ fillResampling
    \/ processBlock
    \/ play
    \/ pause
    \/ startPlayback
    \/ setOutputSampleRateAnyRate

SpecRate == InitRate /\ [][NextRate]_vars

(***************************************************************************)
(* Stops without seeks: the control thread issues play, pause, stop,       *)
(* setGain and loop polls.                                                 *)
(***************************************************************************)
NextStop ==
    \/ backgroundLoadingTask
    \/ fillBufferFromFile
    \/ processBlock
    \/ play
    \/ pause
    \/ stop
    \/ setGain
    \/ getLoopPlaybackDetected
    \/ startPlayback
    \/ setOutputSampleRateBeforeStart

SpecStop == InitStop /\ [][NextStop]_vars

(***************************************************************************)
(* startPlayback on its own: the calling thread runs the pre-fill loop to  *)
(* its end, no other thread touching the player yet (the worker is started *)
(* at line 160 and the callback attached after the call returns).  A read  *)
(* of the file may fail at any iteration.  The calling thread keeps        *)
(* running, which is the fairness stated.                                  *)
(***************************************************************************)
NextStart ==
    \/ startPlayback
    \/ fillBufferFromFile

SpecStart == InitStart /\ [][NextStart]_vars /\ WF_vars(NextStart)

(***************************************************************************)
(* The same pre-fill when every read of the file succeeds.                 *)
(***************************************************************************)
NextPrefill ==
    \/ startPlayback
    \/ fillEnter
    \/ fillLoop
    \/ fillRead
    \/ fillPush
    \/ fillStore

SpecPrefill == InitStart /\ [][NextPrefill]_vars

(***************************************************************************)
(* Playback of a file whose rate may differ from the rate of the output.   *)
(***************************************************************************)
NextResample ==
    \/ backgroundLoadingTask
    \/ fillBufferFromFile
    \/ fillResampling
    \/ processBlock
    \/ play
    \/ pause
    \/ startPlayback

SpecResample == InitResample /\ [][NextResample]_vars

(***************************************************************************)
(* Playback of files whose length does not fit 32 bits.                    *)
(***************************************************************************)
SpecNarrow == InitNarrow /\ [][NextResample]_vars

(***************************************************************************)
(* Playback with stops when every read succeeds and every thread keeps     *)
(* running: the worker's task is rescheduled for ever (lines 159-161), the *)
(* backend calls processBlock once per block, and a call of the control    *)
(* thread, once begun, returns.                                            *)
(***************************************************************************)
fillSucceeding ==
    \/ fillEnter
    \/ fillLoop
    \/ fillRead
    \/ fillPush
    \/ fillStore

NextFair ==
    \/ startPlayback
    \/ backgroundLoadingTask
    \/ fillSucceeding
    \/ processBlock
    \/ play
    \/ pause
    \/ stop

SpecFair ==
    /\ InitFair
    /\ [][NextFair]_vars
    /\ WF_vars(startPlayback)
    /\ WF_vars(backgroundLoadingTask \/ fillSucceeding)
    /\ WF_vars(processBlock)
    /\ WF_vars(stopPosition \/ stopReset)

(***************************************************************************)
(* Stops whose reset may race with a push of the worker.                   *)
(***************************************************************************)
NextRace ==
    \/ backgroundLoadingTask
    \/ fillBufferFromFile
    \/ processBlock
    \/ play
    \/ pause
    \/ stopRacing
    \/ startPlayback

SpecRace == InitRace /\ [][NextRace]_vars

(***************************************************************************)
(* The JACK front end (part_003): MIDI events and the position cache in    *)
(* the process callback, the timebase callback, and the cases of main's    *)
(* loop that deal with the transport.  A call of the player made by main   *)
(* is one step here; each store to a flag of the context is a step of its  *)
(* own, so that the callbacks can run between two of them.                 *)
(***************************************************************************)
\* The callbacks run once the client is active, after startPlayback.
jackActive == phase = "started" /\ fileLoaded /\ totalFrames > 0

playerUnchangedByJack ==
    UNCHANGED <<fileVars, outputSampleRate, bufferSize, isPlaying, currentGain,
                fileReadPosition, totalSamplesPlayed, loopPlaybackDetected,
                shouldStopLoading, audioBuffer, phase, workerRunning, lastFillLevel,
                stuckCount, wpc, w, rpc, r, output, c, obs, fifoVars>>

\* audioFilePlayer->stop() as main calls it (header line 33).
playerStop ==
    /\ isPlaying' = FALSE
    /\ fileReadPosition' = 0
    /\ totalSamplesPlayed' = 0
    /\ audioBuffer' = reset(bufferSize)
    /\ obs' = noteJump(noteDisturbed(obs), "stop", 0)
    /\ UNCHANGED <<fileVars, outputSampleRate, bufferSize, currentGain,
                   loopPlaybackDetected, shouldStopLoading, phase, workerRunning,
                   lastFillLevel, stuckCount, wpc, w, rpc, r, output, c, fifoVars>>

\* Setting isPlaying, as play() and pause() do (header lines 31-32).
playerSetPlaying(playing) ==
    /\ isPlaying' = playing
    /\ UNCHANGED <<fileVars, outputSampleRate, bufferSize, currentGain,
                   fileReadPosition, totalSamplesPlayed, loopPlaybackDetected,
                   shouldStopLoading, audioBuffer, phase, workerRunning, lastFillLevel,
                   stuckCount, wpc, w, rpc, r, output, c, obs, fifoVars>>

\* Lines 691-696: MIDI CC1 above one half, at the head of the process callback.
midiPlay ==
    /\ jackActive /\ rpc = "idle"
    /\ jack' = [jack EXCEPT !.requestPlay = TRUE]
    /\ cpc' = cpc
    /\ playerUnchangedByJack

\* Lines 697-707: MIDI CC2 above one half: pause when playing, else ask for a stop.
midiStop ==
    /\ jackActive /\ rpc = "idle"
    /\ cpc' = cpc
    /\ IF isPlaying
       THEN /\ playerSetPlaying(FALSE)
            /\ jack' = jack
       ELSE /\ jack' = [jack EXCEPT !.requestStop = TRUE]
            /\ playerUnchangedByJack

\* Line 732: the process callback caches getCurrentOutputFrame() after processBlock.
jackCachePosition ==
    /\ jackActive /\ rpc = "idle"
    /\ jack' = [jack EXCEPT !.lastKnownPosition = getCurrentOutputFrame]
    /\ cpc' = cpc
    /\ playerUnchangedByJack

\* Lines 739-761: the timebase callback writes pos->frame.
jackTimebaseCallback ==
    /\ jackActive
    /\ jack' = IF jack.requestStop
               THEN [jack EXCEPT !.frame = 0, !.path = "locked"]
               ELSE [jack EXCEPT !.frame = IF jack.lastKnownPosition >= totalFrames
                                           THEN jack.lastKnownPosition % totalFrames
                                           ELSE jack.lastKnownPosition,
                                 !.path = "cached"]
    /\ cpc' = cpc
    /\ playerUnchangedByJack

\* Lines 938-947: the space key: pause when playing, else clear the stop
\* request, then play.
keySpace ==
    \/ /\ controlReady /\ jackActive
       /\ IF isPlaying
          THEN /\ playerSetPlaying(FALSE)
               /\ UNCHANGED <<cpc, jack>>
          ELSE /\ jack' = [jack EXCEPT !.requestStop = FALSE]
               /\ cpc' = "space_play"
               /\ playerUnchangedByJack
    \/ /\ cpc = "space_play"
       /\ playerSetPlaying(TRUE)
       /\ cpc' = "idle"
       /\ jack' = jack

\* Lines 949-956: the S key: stop(), position cache to 0, stop request set.
keyStop ==
    \/ /\ controlReady /\ jackActive
       /\ playerStop
       /\ cpc' = "s_cache"
       /\ jack' = jack
    \/ /\ cpc = "s_cache"
       /\ jack' = [jack EXCEPT !.lastKnownPosition = 0]
       /\ cpc' = "s_request"
       /\ playerUnchangedByJack
    \/ /\ cpc = "s_request"
       /\ jack' = [jack EXCEPT !.requestStop = TRUE]
       /\ cpc' = "idle"
       /\ playerUnchangedByJack

\* Faulty variant: a MIDI play request is served without the reset to frame 0.
mainMidiPlayTestNoReset ==
    /\ cpc = "midi_play_test"
    /\ jack' = [jack EXCEPT !.requestStop = FALSE, !.wasStoppedAtZero = jack.requestStop]
    /\ cpc' = "midi_play_play"
    /\ playerUnchangedByJack

\* Line 996: wasStoppedAtZero = requestStop.exchange(false).
mainMidiPlayTest ==
    /\ cpc = "midi_play_test"
    /\ jack' = [jack EXCEPT !.requestStop = FALSE, !.wasStoppedAtZero = jack.requestStop]
    /\ cpc' = IF jack.requestStop THEN "midi_play_stop" ELSE "midi_play_play"
    /\ playerUnchangedByJack

\* Lines 994-1005: main serves a MIDI play request.
mainMidiPlay ==
    \/ /\ controlReady /\ jackActive
       /\ jack.requestPlay
       /\ jack' = [jack EXCEPT !.requestPlay = FALSE]
       /\ cpc' = "midi_play_test"
       /\ playerUnchangedByJack
    \/ mainMidiPlayTest
    \/ /\ cpc = "midi_play_stop"
       /\ playerStop
       /\ cpc' = "midi_play_play"
       /\ jack' = jack
    \/ /\ cpc = "midi_play_play"
       /\ playerSetPlaying(TRUE)
       /\ cpc' = "idle"
       /\ jack' = [jack EXCEPT !.wasStoppedAtZero = FALSE]

\* Lines 1006-1024: main serves the stop request, and leaves it set.
mainStopRequest ==
    \/ /\ controlReady /\ jackActive
       /\ jack.requestStop
       /\ playerStop
       /\ cpc' = "request_cache"
       /\ jack' = jack
    \/ /\ cpc = "request_cache"
       /\ jack' = [jack EXCEPT !.lastKnownPosition = 0]
       /\ cpc' = "idle"
       /\ playerUnchangedByJack

\* A mono file of two frames behind the JACK front end.
JackConfigs ==
    {cfg \in PlayConfigs :
        /\ cfg.numChannels = 1 /\ cfg.numOutputChannels = 1
        /\ cfg.totalFrames = 2 /\ cfg.blockFrames = 1}

InitJack == InitWith(JackConfigs, SampleRates)

NextJack ==
    \/ backgroundLoadingTask
    \/ fillBufferFromFile
    \/ processBlock
    \/ startPlayback
    \/ midiPlay
    \/ midiStop
    \/ jackCachePosition
    \/ jackTimebaseCallback
    \/ keySpace
    \/ keyStop
    \/ mainMidiPlay
    \/ mainStopRequest

SpecJack == InitJack /\ [][NextJack]_vars

(***************************************************************************)
(* The FIFO on its own: one producer pushing, one consumer popping, and    *)
(* resets made while neither is in flight.  `shadow` is the queue of the   *)
(* contract, driven by the same calls.                                     *)
(***************************************************************************)
FifoItems == {1, 2}

producerPush ==
    /\ \E item \in FifoItems :
        /\ fifo' = fifoPush(fifo, item)
        /\ shadow' = push(shadow, item)
    /\ UNCHANGED <<fileVars, playerVars, phase, workerRunning, lastFillLevel,
                   stuckCount, wpc, w, rpc, r, output, cpc, c, obs, jack>>

consumerPop ==
    /\ fifo' = fifoPop(fifo)
    /\ shadow' = pop(shadow)
    /\ UNCHANGED <<fileVars, playerVars, phase, workerRunning, lastFillLevel,
                   stuckCount, wpc, w, rpc, r, output, cpc, c, obs, jack>>

resetBuffer ==
    /\ fifo' = fifoReset(bufferSize)
    /\ shadow' = reset(bufferSize)
    /\ UNCHANGED <<fileVars, playerVars, phase, workerRunning, lastFillLevel,
                   stuckCount, wpc, w, rpc, r, output, cpc, c, obs, jack>>

NextFifo ==
    \/ producerPush
    \/ consumerPop
    \/ resetBuffer

SpecFifo == Init /\ [][NextFifo]_vars

(***************************************************************************)
(* Properties.                                                             *)
(***************************************************************************)
allZero(block) == \A f \in DOMAIN block : \A ch \in DOMAIN block[f] : block[f][ch] = 0

\* C1: in every reachable state, under any interleaving of pushes by the one
\* producer and pops by the one consumer, getUsedSlots() + getFreeSlots() of the
\* ring equals the capacity set by the last reset.
RingCountsAddUp ==
    /\ fifo.capacity = bufferSize
    /\ fifoUsedSlots(fifo) + fifoFreeSlots(fifo) = fifo.capacity

\* C1 witness: the write cursor has wrapped behind the read cursor, with some
\* slots used and some free.
RingWrappedPartlyFull ==
    /\ fifo.writePos < fifo.readPos
    /\ fifoUsedSlots(fifo) > 0
    /\ fifoFreeSlots(fifo) > 0

\* C2: samples are popped in exactly the order they were pushed: what the ring
\* holds, read from the read cursor on, is the queue of the samples pushed and
\* not yet popped, the next pop returns its head, and push and pop succeed
\* exactly when the queue is not full and not empty.
FifoOrderPreserved ==
    /\ fifoContents(fifo) = shadow.items
    /\ fifoPopValue(fifo, 0) = popValue(shadow, 0)
    /\ fifoPopOk(fifo) = popOk(shadow)
    /\ fifoPushOk(fifo) = pushOk(shadow)

\* C2 witness: two different samples are queued across the wrap of the ring.
RingHoldsOrderedPairAcrossWrap ==
    /\ fifo.writePos < fifo.readPos
    /\ Len(shadow.items) >= 2
    /\ shadow.items[1] # shadow.items[2]

\* C3: with the file rate equal to the output rate, gain 1.0 and no seek or
\* stop, the frames the non-underrun processBlock calls write are the file's
\* frames in file order from frame 0 (looping), sample for sample, changed only
\* by the channel mapping (an output channel beyond the file's gets its last).
RoundTripExact ==
    (/\ rpc \in {"pop", "post"}
     /\ obs.block = "rendered"
     /\ obs.clean
     /\ ~needsResampling
     /\ r.gain = GainUnit)
    => \A f \in 0 .. r.frame - 1 :
         LET fileFrame == (obs.rendered + blockFrames * totalFrames - r.frame + f)
                              % totalFrames
         IN \A ch \in 0 .. numOutputChannels - 1 :
              output[f][ch] =
                  FileSample(fileFrame, IF ch < numChannels THEN ch ELSE numChannels - 1)

\* C3 witness: a rendered block whose first frame is the file's last and whose
\* second frame is the file's first, on an output with another channel count.
RenderedBlockSpansWrap ==
    /\ rpc = "post"
    /\ obs.block = "rendered"
    /\ r.gain = GainUnit
    /\ totalFrames >= 2
    /\ blockFrames = 2
    /\ numChannels # numOutputChannels
    /\ output[0][0] = FileSample(totalFrames - 1, 0)
    /\ output[1][0] = FileSample(0, 0)

\* C4: for a file of N >= 1 frames played without seek or stop in the
\* rate-matched path, the stream pushed to the ring is 0..N-1, 0..N-1, ...: the
\* samples queued are the consecutive samples of the looped file that follow the
\* last sample popped, with no gap and no repeat at the wrap.
PushedStreamIsFileLoop ==
    (fileLoaded /\ totalFrames >= 1 /\ obs.clean /\ ~needsResampling)
    => LET popped == obs.rendered * numChannels + r.channel
       IN \A i \in 1 .. Len(audioBuffer.items) :
            audioBuffer.items[i] =
                FileSample(((popped + i - 1) \div numChannels) % totalFrames,
                           (popped + i - 1) % numChannels)

\* C4 witness: after some rendering, the ring holds the last sample of frame
\* N-1 immediately followed by the first sample of frame 0.
RingHoldsWrap ==
    /\ totalFrames >= 2
    /\ obs.clean
    /\ obs.rendered > 0
    /\ \E i \in 1 .. Len(audioBuffer.items) - 1 :
         /\ audioBuffer.items[i] = FileSample(totalFrames - 1, numChannels - 1)
         /\ audioBuffer.items[i + 1] = FileSample(0, 0)

\* C5: the loop flag is one-shot: it is raised exactly when the read cursor has
\* wrapped since the last poll that returned true, so a poll returns true for a
\* wrap once and the polls after it return false until the next wrap.
LoopFlagOneShot == loopPlaybackDetected = (obs.wraps >= 1)

\* C5 witness: a poll has just returned true and left the flag cleared.
PollSawWrapAndCleared ==
    /\ cpc = "idle"
    /\ c.flag
    /\ ~loopPlaybackDetected
    /\ obs.wraps = 0

\* C6: when processBlock finds fewer than F x numChannels samples buffered
\* while playing, it returns at once with the whole block zero and the ring
\* untouched: no partial block, no pop, no stall.
UnderrunIsSilent ==
    /\ [](obs.block = "underrun" => (rpc = "post" /\ allZero(output)))
    /\ [][(/\ rpc = "check"
           /\ rpc' # "check"
           /\ getUsedSlots(audioBuffer) < blockFrames * numChannels)
          => (rpc' = "post" /\ allZero(output') /\ audioBuffer' = audioBuffer)]_vars
    /\ [][(obs.block = "underrun" /\ rpc' # rpc)
          => (rpc' = "idle" /\ audioBuffer' = audioBuffer)]_vars

\* C6 witness: an underrun block while some samples, fewer than the block
\* needs, are buffered.
UnderrunWithPartialData ==
    /\ obs.block = "underrun"
    /\ isPlaying
    /\ getUsedSlots(audioBuffer) > 0
    /\ getUsedSlots(audioBuffer) < blockFrames * numChannels

\* C7: whenever the player is paused, stopped or not loaded, processBlock
\* writes an all-zero block and pops nothing from the ring.
NotPlayingIsSilent ==
    /\ [](obs.block = "notPlaying" => (rpc = "post" /\ allZero(output)))
    /\ [][(rpc = "idle" /\ rpc' # "idle" /\ (~isPlaying \/ ~fileLoaded))
          => (rpc' = "post" /\ allZero(output') /\ audioBuffer' = audioBuffer)]_vars
    /\ [][(obs.block = "notPlaying" /\ rpc' # rpc)
          => (rpc' = "idle" /\ audioBuffer' = audioBuffer)]_vars

\* C7 witness: a silent block of a paused player whose ring holds enough
\* samples for the block.
PausedBlockWithDataBuffered ==
    /\ obs.block = "notPlaying"
    /\ fileLoaded
    /\ ~isPlaying
    /\ getUsedSlots(audioBuffer) >= blockFrames * numChannels

\* C8: every processBlock invocation of F frames advances the published
\* playback position (getCurrentOutputFrame) by F frames modulo the total frame
\* count.  Stated for the invocations that render a block.
PositionAdvancesPerBlock ==
    [][(rpc = "pop" /\ rpc' = "post")
       => getCurrentOutputFrame' = (getCurrentOutputFrame + blockFrames) % totalFrames]_vars

\* C9: in every state with no fill and no render in progress (and, here, no
\* control call in progress and no seek or stop made so far), the worker's
\* read cursor equals the published position plus the frames buffered, modulo
\* the total frame count.
WorkerCursorLeadsByBuffered ==
    (/\ fileLoaded
     /\ totalFrames > 0
     /\ obs.clean
     /\ wpc = "idle"
     /\ rpc = "idle"
     /\ cpc = "idle")
    => fileReadPosition % totalFrames
         = (getCurrentOutputFrame + getUsedSlots(audioBuffer) \div numChannels)
               % totalFrames

\* C10: skipForward(s) on a loaded player sets the published playback position
\* to the new position (p + s x fileSampleRate) mod totalFrames it computed and
\* stored in the worker's read cursor.
SkipForwardPublishesNewPosition ==
    [][(cpc = "skip_reset" /\ cpc' = "idle")
       => getCurrentOutputFrame' = c.newFilePos]_vars

\* C15: if opening the file fails (missing or unreadable file, unsupported
\* format, zero channels), the player is not loaded and has an error message
\* after construction, and no later call makes it loaded, starts the fill
\* worker or produces non-zero output.
FailedOpenIsPermanent ==
    /\ [](errorMessage # "" => (~fileLoaded /\ ~workerRunning /\ allZero(output)))
    /\ [](~fileLoaded => errorMessage # "")
    /\ [][~fileLoaded => ~fileLoaded']_vars

\* C15 witness: a file of no channels; startPlayback, play and processBlock
\* have been called.
ZeroChannelFilePlayed ==
    /\ errorMessage = "Invalid audio file format"
    /\ phase = "started"
    /\ isPlaying
    /\ obs.block = "notPlaying"

\* The first frame of the block in progress is file frame `position`, at full
\* gain, through the channel mapping.
firstFrameIs(position) ==
    \A ch \in 0 .. numOutputChannels - 1 :
        output[0][ch] = FileSample(position, IF ch < numChannels THEN ch ELSE numChannels - 1)

\* C11: after skipForward has returned, the first non-silent block rendered by
\* a later processBlock call starts with the frame at the new position: no
\* sample decoded from the pre-seek position is delivered.
FirstBlockAfterSeekIsFresh ==
    (/\ obs.jump = "seek"
     /\ obs.first
     /\ obs.block = "rendered"
     /\ r.frame >= 1
     /\ r.gain = GainUnit)
    => firstFrameIs(obs.target)

\* C12: when stop() returns, the player is not playing, the worker read cursor
\* is 0, the published playback position is 0 and the ring is empty.  (The
\* cursor is compared modulo the file length: a cursor at end of file, which
\* the next fill wraps to 0, is let pass.)
StopLeavesEverythingReset ==
    [][(cpc = "stop_reset" /\ cpc' = "idle" /\ fileLoaded /\ totalFrames > 0)
       => (/\ ~isPlaying'
           /\ fileReadPosition' % totalFrames = 0
           /\ getCurrentOutputFrame' = 0
           /\ getUsedSlots(audioBuffer') = 0)]_vars

\* C13: after stop() has returned and play() has been called, the first frame
\* delivered by processBlock is file frame 0: nothing decoded before the stop
\* is replayed.
FirstBlockAfterStopIsFrameZero ==
    (/\ obs.jump = "stop"
     /\ obs.first
     /\ obs.block = "rendered"
     /\ r.frame >= 1
     /\ r.gain = GainUnit)
    => firstFrameIs(0)

\* A step that empties a ring that held samples, other than by popping them.
ringCleared ==
    /\ getUsedSlots(audioBuffer) > 0
    /\ getUsedSlots(audioBuffer') = 0
    /\ r' = r

\* A step of a control call that is none of play, pause, setGain, the loop
\* poll, stop and skipForward, and no step of the worker or the callback.
otherControlCall ==
    /\ cpc = "idle"
    /\ cpc' = "idle"
    /\ UNCHANGED <<isPlaying, currentGain, loopPlaybackDetected, phase, wpc, w, rpc, r>>

\* C14 as stated: play() and pause() leave the read cursor, the published
\* position and the ring unchanged, and stop() and skipForward() are the only
\* operations that empty the ring.  This is its second half.
OnlyStopAndSeekClearTheRing ==
    [][ringCleared => cpc \in {"stop_reset", "skip_reset"}]_vars

\* C14 amended: play() and pause() leave the read cursor, the published
\* position and the ring unchanged; stop(), skipForward() and
\* setOutputSampleRate() are the only operations that empty the ring.
PlayPauseKeepRingResetsClearIt ==
    /\ [][(cpc = "idle" /\ cpc' = "idle" /\ isPlaying' # isPlaying)
          => UNCHANGED <<fileReadPosition, totalSamplesPlayed, audioBuffer>>]_vars
    /\ [][ringCleared => (cpc \in {"stop_reset", "skip_reset"} \/ otherControlCall)]_vars

\* C14 witness: the player was paused, with no stop or seek before, while the
\* ring held samples, and they are still there.
PausedWithRingKept ==
    /\ phase = "started"
    /\ fileLoaded
    /\ ~isPlaying
    /\ obs.clean
    /\ rpc = "idle"
    /\ getUsedSlots(audioBuffer) > 0

\* C16: startPlayback() always returns: the pre-fill loop ends when the ring
\* reaches 90% or after a bounded count of iterations without progress (a file
\* of no frames, reads that fail, less than a chunk of free space).
StartPlaybackReturns == (phase = "prefill") ~> (phase = "started")

\* C16 witness: startPlayback has returned, having given up below 90%.
StartPlaybackGaveUp ==
    /\ phase = "started"
    /\ fileLoaded
    /\ stuckCount > maxStuck
    /\ getUsedSlots(audioBuffer) < targetFill

\* A chunk still fits whenever the ring is below the 90% mark.
chunkFitsAtTarget == bufferSize - (targetFill - 1) >= chunkFrames * numChannels

\* C17: when startPlayback returns on a loaded file of at least one frame,
\* reads succeeding and a chunk still fitting at the 90% mark, the ring holds
\* at least floor(capacity * 9 / 10) samples and at most that plus one chunk.
PrefillReachesTarget ==
    (phase = "started" /\ fileLoaded /\ totalFrames >= 1 /\ chunkFitsAtTarget)
        => /\ getUsedSlots(audioBuffer) >= targetFill
           /\ getUsedSlots(audioBuffer) <= targetFill + chunkFrames * numChannels

\* C17 witness: startPlayback returned with the ring filled past the mark, by
\* less than a chunk, and not full.
PrefillOvershotTarget ==
    /\ phase = "started"
    /\ fileLoaded
    /\ chunkFitsAtTarget
    /\ getUsedSlots(audioBuffer) > targetFill
    /\ getFreeSlots(audioBuffer) > 0

\* C18: teardown sets the stop-loading flag and joins the worker before the
\* file reader is destroyed: once the join has returned no fill is running or
\* starts (so none reads the file), and a worker tick that observes the flag
\* starts no fill.
TeardownJoinsBeforeDestroying ==
    /\ [](phase \in {"joined", "destroyed"}
            => (shouldStopLoading /\ ~workerRunning /\ wpc = "idle"))
    /\ [][(wpc # "idle")' => (phase \notin {"joined", "destroyed"})']_vars
    /\ [][(workerRunning /\ wpc = "idle" /\ wpc' # "idle") => ~shouldStopLoading]_vars

\* C18 witness: the destructor set the flag while the worker was inside a
\* fill, between its read of the file and its store of the cursor.
FlagSetDuringFill ==
    /\ phase = "stopping"
    /\ shouldStopLoading
    /\ workerRunning
    /\ wpc \in {"push", "store"}

\* C19: for every rendered frame, output channel c carries the sample of file
\* channel min(c, numChannels - 1) of that frame times the gain of the block:
\* output channels beyond the file's duplicate its last channel, file channels
\* beyond the output's are dropped without shifting later frames.
RenderedFrameMapsChannels ==
    (/\ rpc \in {"pop", "post"}
     /\ obs.block = "rendered"
     /\ obs.clean)
    => \A f \in 0 .. r.frame - 1 :
         LET fileFrame == (obs.rendered + blockFrames * totalFrames - r.frame + f)
                              % totalFrames
         IN \A ch \in 0 .. numOutputChannels - 1 :
              output[f][ch] =
                  (FileSample(fileFrame, Min(ch, numChannels - 1)) * r.gain) \div GainUnit

\* C20: after any sequence of setGain calls with arbitrary arguments the
\* stored gain lies in [0, 1].
StoredGainInUnitRange == currentGain \in 0 .. GainUnit

RefusedPushAndPopChangeNothing ==
    /\ (fifoUsedSlots(fifo) = fifo.capacity
          => /\ ~fifoPushOk(fifo)
             /\ \A item \in FifoItems : fifoPush(fifo, item) = fifo)
    /\ (fifoUsedSlots(fifo) = 0
          => /\ ~fifoPopOk(fifo)
             /\ fifoPop(fifo) = fifo
             /\ fifoPopValue(fifo, 0) = 0)
    /\ fifoContents(fifo) = shadow.items
    /\ ENABLED producerPush
    /\ ENABLED consumerPop

\* C22 witness: a ring that was filled, emptied by pops and filled again, so
\* that a full ring and an empty ring with moved cursors were both passed.
RingFullAfterBeingDrained ==
    /\ fifo.capacity >= 2
    /\ fifoUsedSlots(fifo) = fifo.capacity
    /\ fifo.readPos = fifo.capacity

\* C23: the ring is never reset while a push or a pop is in flight: no state
\* has stop() or skipForward() at its audioBuffer.reset while the worker is in
\* the push loop of a fill or the callback in the pop loop of a block.
ResetExcludesPushAndPop ==
    cpc \in {"stop_reset", "skip_reset"} => (wpc # "push" /\ rpc # "pop")

\* C24: a seek or stop is never lost: a fill that writes the read cursor finds
\* in it the value it loaded (or the 0 it wrote itself on wrapping), never a
\* value written by stop() or skipForward() after the fill loaded the cursor.
WorkerNeverOverwritesSeek ==
    [][(fileReadPosition' # fileReadPosition /\ cpc' = cpc)
          => fileReadPosition = w.currentFilePos]_vars

\* C25: when a push fails on a full ring, the fill records the source frame
\* reached and the next invocation resumes there, so that the samples pushed
\* across the two invocations hold no duplicated sample, the channels of the
\* interrupted frame that were already pushed included: no sample of the file
\* is queued twice in a row.
ResumedFillRepeatsNoSample ==
    (totalFrames * numChannels >= 2)
    => \A i \in 1 .. Len(audioBuffer.items) - 1 :
          \/ audioBuffer.items[i] = staleSample
          \/ audioBuffer.items[i] # audioBuffer.items[i + 1]

\* C26: on the resampling path successive invocations are contiguous in the
\* source: the cursor stored at the end of an invocation is the cursor it
\* loaded plus the source frames covered by the output frames it produced
\* (actualFramesToRead output frames cover actualFramesToRead * fileSampleRate /
\* outputSampleRate source frames), whenever the file holds that many frames
\* from the cursor on.
ResampledFillsAreContiguous ==
    [][(/\ wpc = "rstore" /\ wpc' # "rstore"
        /\ w.actualFramesToRead * fileSampleRate
              <= availableFrames(w.currentFilePos) * outputSampleRate)
       => fileReadPosition' * outputSampleRate
             = w.currentFilePos * outputSampleRate
                  + w.actualFramesToRead * fileSampleRate]_vars

RenderLeavesFileAndCursorAlone ==
    /\ [][(rpc' # rpc \/ r' # r \/ output' # output)
          => /\ fileReadPosition' = fileReadPosition
             /\ loopPlaybackDetected' = loopPlaybackDetected
             /\ fileVars' = fileVars
             /\ wpc' = wpc /\ w' = w]_vars
    /\ [](rpc # "idle" => ENABLED processBlock)

\* An underrun block is in progress while the worker, past its first lap of
\* the file, is pushing resampled frames.
UnderrunWhileWorkerResamples ==
    /\ rpc = "post" /\ obs.block = "underrun"
    /\ wpc = "rpush" /\ needsResampling
    /\ loopPlaybackDetected

\* C29: at most one thread pushes into the ring at any time.  The pre-fill of
\* startPlayback is over before the background worker is started and before
\* isPlaying is true, so that a fill in progress is run either by the caller
\* of startPlayback or by the worker, never by both, and the callback is not
\* rendering (and pops nothing) during the pre-fill.
OnePusherAtATime ==
    /\ cpc \in {"prefill_test", "prefill_fill", "prefill_done"} => ~workerRunning
    /\ phase \in {"constructed", "prefill"} => (~isPlaying /\ rpc = "idle")
    /\ workerRunning => cpc # "prefill_fill"
    /\ wpc # "idle" => (cpc = "prefill_fill" \/ workerRunning)

\* The caller of startPlayback is pushing the second chunk of the pre-fill.
PrefillPushInProgress ==
    /\ phase = "prefill" /\ cpc = "prefill_fill"
    /\ wpc \in {"push", "rpush"}
    /\ getUsedSlots(audioBuffer) >= chunkFrames * numChannels
    /\ ~workerRunning /\ ~isPlaying

\* C30: for an output frame whose source index k lies inside the window of W
\* source frames read, the converter interpolates cubically when k-1, k, k+1
\* and k+2 all lie inside the window, linearly when they do not but k+1 does,
\* and copies frame k otherwise; and every output index asked for gets an
\* output frame.
InterpolationFollowsNeighbours ==
    wpc = "rpush"
    => LET k == sourceFrame(w.frame)
           window == w.fileFramesToRead
           kind == interpolation(k, window)
       IN /\ kind # "none"
          /\ k < window
             => kind = IF k >= 1 /\ k + 2 < window THEN "cubic"
                       ELSE IF k + 1 < window THEN "linear"
                       ELSE "copy"

\* Line 222: the source frames read beyond those the outputs ask for.
lookAheadFrames == 2

\* Output frames buffered, and their distance (in units of 1 / fileSampleRate
\* output frames) from totalFrames / r, r = fileSampleRate / outputSampleRate.
bufferedFrames == getUsedSlots(audioBuffer) \div numChannels

passError ==
    IF bufferedFrames * fileSampleRate >= totalFrames * outputSampleRate
    THEN bufferedFrames * fileSampleRate - totalFrames * outputSampleRate
    ELSE totalFrames * outputSampleRate - bufferedFrames * fileSampleRate

\* The first pass through the file has just ended, nothing of it was rendered.
firstPassBuffered ==
    /\ phase = "prefill" /\ cpc = "prefill_test" /\ wpc = "idle"
    /\ fileLoaded /\ needsResampling
    /\ fileReadPosition = totalFrames
    /\ ~loopPlaybackDetected

\* C31: one pass through a file of totalFrames frames, from cursor 0 until the
\* cursor wraps, pushes round(totalFrames / r) output frames up to an error that
\* does not grow with totalFrames: it stays within the output frames that the
\* look-ahead of one chunk stands for, plus one for the rounding.
PassLengthFollowsRatio ==
    firstPassBuffered
    => passError <= lookAheadFrames * outputSampleRate + fileSampleRate

\* C32: for a chunk of actualFramesToRead output frames the converter reads
\* ceil(actualFramesToRead * r) + 2 source frames, fewer only when the end of
\* the file is closer than that.
ReadWindowIsCeilingPlusMargin ==
    wpc = "rpush"
    => LET covered == w.actualFramesToRead * fileSampleRate
           ceiling == (covered + outputSampleRate - 1) \div outputSampleRate
       IN w.fileFramesToRead
             = Min(ceiling + lookAheadFrames, availableFrames(w.currentFilePos))

\* C33: the loop flag is raised in the worker invocation that wraps the read
\* cursor to 0, at the wrap itself: the step that takes the cursor from the
\* end of the file to 0 raises the flag and pushes nothing, and the flag is
\* raised by no other step, so it is up before the first sample after the
\* wrap is pushed.
LoopFlagRaisedAtWrap ==
    [][/\ (wpc = "loop" /\ wpc' # "loop" /\ w.currentFilePos >= totalFrames)
          => (fileReadPosition' = 0 /\ loopPlaybackDetected'
              /\ audioBuffer' = audioBuffer)
       /\ (~loopPlaybackDetected /\ loopPlaybackDetected')
          => (wpc = "loop" /\ fileReadPosition' = 0 /\ audioBuffer' = audioBuffer)]_vars

\* A poll has returned true while the invocation that wrapped has pushed
\* nothing yet: the ring holds the last frames of the file only, still to be
\* rendered.
LoopSeenBeforeWrapIsHeard ==
    /\ c.flag /\ cpc = "idle"
    /\ ~loopPlaybackDetected /\ obs.wraps = 0
    /\ phase = "started" /\ totalFrames >= 2
    /\ wpc = "read" /\ w.entryFilePos = totalFrames
    /\ Len(audioBuffer.items) >= 1
    /\ audioBuffer.items[Len(audioBuffer.items)] = FileSample(totalFrames - 1, numChannels - 1)
    /\ \A i \in 1 .. Len(audioBuffer.items) - 1 :
          audioBuffer.items[i] < audioBuffer.items[i + 1]

\* C34: skipForward returns the new playback position, the position the seek
\* has just moved to (file and output run at the same rate here, so the
\* position is the same frame count in both).
SkipForwardReturnsNewPosition ==
    [][(cpc = "skip_reset" /\ cpc' = "idle" /\ fileSampleRate = outputSampleRate)
       => c'.ret = c.newFilePos]_vars

RingStaysFrameAligned ==
    (fileLoaded /\ numChannels <= maxFrameSamples)
    => /\ (rpc = "pop" /\ r.channel = 0 /\ getUsedSlots(audioBuffer) > 0)
          => (Head(audioBuffer.items) - FileSample(0, 0)) % numChannels = 0
       /\ (wpc = "idle" /\ rpc # "pop")
          => getUsedSlots(audioBuffer) % numChannels = 0

\* C37: every push inside fillBufferFromFile succeeds: whenever the fill is
\* about to push a sample the ring has room for it, so the failed-push branches
\* are never taken, and the used slots never exceed the capacity.
EveryPushSucceeds ==
    /\ wpc \in {"push", "rpush"} => pushOk(audioBuffer)
    /\ getUsedSlots(audioBuffer) <= audioBuffer.capacity

WrapOnlyAtEndOfFile ==
    /\ (fileLoaded /\ wpc = "loop" /\ w.currentFilePos < totalFrames)
       => availableFrames(w.currentFilePos) > 0
    /\ (fileLoaded /\ w.currentFilePos < totalFrames /\ wpc = "loop")
       => ~ENABLED (fillLoop /\ loopPlaybackDetected' /\ fileReadPosition' = 0
                    /\ wpc' = fillReturn)

\* C40: while the player plays a loaded file of at least one frame whose reads
\* succeed, the ring holding at least a block and a chunk, and the worker and
\* the callback are scheduled fairly, an underrun is never permanent: a
\* processBlock call eventually pops a full block, unless the control thread
\* pauses, stops or makes another call first.
UnderrunIsNeverPermanent ==
    (/\ phase = "started" /\ fileLoaded /\ isPlaying /\ totalFrames >= 1
     /\ audioBuffer.capacity >= (blockFrames + chunkFrames) * numChannels)
    ~> (\/ rpc = "post" /\ obs.block = "rendered"
        \/ ~isPlaying
        \/ cpc # "idle")

====
